---- MODULE Spec2Model ----
(***************************************************************************)
(* Long-spot / short-delivery-future carry strategy.                       *)
(*                                                                         *)
(*   quant_trader/backtest.py   contract roll scheduler (_build_contract_  *)
(*                              segments) and daily mark-to-market         *)
(*                              simulator (_simulate)                      *)
(*   quant_trader/execution.py  lot rounding (_round_to_step), the slice   *)
(*                              placers and the TWAP open / close loops    *)
(*                                                                         *)
(* Dates are proleptic Gregorian ordinals (date.toordinal()).  Quantities, *)
(* prices and notionals are exact decimals held as integers in units of    *)
(* 1/One; a planned size, which the code obtains by a float division, is   *)
(* held as an exact fraction num/den.                                      *)
(***************************************************************************)
EXTENDS Integers, Sequences, FiniteSets, TLC

\* Optional values: None is the empty tuple, a present value v is <<v>>
None == <<>>
Some(v) == <<v>>

Min(a, b) == IF a <= b THEN a ELSE b
Max(a, b) == IF a >= b THEN a ELSE b

(***************************************************************************)
(* datetime.date arithmetic used by backtest.py                            *)
(***************************************************************************)
IsLeap(y) == (y % 4 = 0) /\ ((y % 100 # 0) \/ (y % 400 = 0))

DaysInMonth(y, m) ==
    IF m = 2 THEN (IF IsLeap(y) THEN 29 ELSE 28)
    ELSE IF m \in {4, 6, 9, 11} THEN 30 ELSE 31

DaysBeforeYear(y) ==
    (y - 1) * 365 + ((y - 1) \div 4) - ((y - 1) \div 100) + ((y - 1) \div 400)

RECURSIVE DaysBeforeMonth(_, _)
DaysBeforeMonth(y, m) ==
    IF m = 1 THEN 0 ELSE DaysBeforeMonth(y, m - 1) + DaysInMonth(y, m - 1)

\* date(y, m, d).toordinal()
Ordinal(y, m, d) == DaysBeforeYear(y) + DaysBeforeMonth(y, m) + d

\* date.weekday(): Monday is 0, Friday is 4
Weekday(o) == (o + 6) % 7

\* date.fromordinal(o).year / .month / .day
YearOf(o) ==
    CHOOSE y \in 1990..2060 : Ordinal(y, 1, 1) <= o /\ o < Ordinal(y + 1, 1, 1)

MonthOf(o) ==
    LET y == YearOf(o)
    IN  CHOOSE m \in 1..12 :
            /\ Ordinal(y, m, 1) <= o
            /\ o < Ordinal(y, m, 1) + DaysInMonth(y, m)

DayOf(o) == o - Ordinal(YearOf(o), MonthOf(o), 1) + 1

\* the while loop of _last_friday: step back one day until a Friday
RECURSIVE StepBackToFriday(_)
StepBackToFriday(candidate) ==
    IF Weekday(candidate) = 4 THEN candidate
    ELSE StepBackToFriday(candidate - 1)

_last_friday_of_next_month_start(y, m) ==
    IF m = 12 THEN Ordinal(y + 1, 1, 1) ELSE Ordinal(y, m + 1, 1)

\* a scheduler that rolls on the last Thursday instead
_last_friday_thursday(y, m) ==
    StepBackToFriday(_last_friday_of_next_month_start(y, m) - 1) - 1

_last_friday(y, m) ==
    StepBackToFriday(_last_friday_of_next_month_start(y, m) - 1)

\* delivery.strftime('%y%m%d') as the number YYMMDD
strftime_yymmdd(d) == (YearOf(d) % 100) * 10000 + MonthOf(d) * 100 + DayOf(d)

\* f"{pair}_{delivery.strftime('%y%m%d')}"
_format_delivery_symbol(pair, delivery) == <<pair, strftime_yymmdd(delivery)>>

(***************************************************************************)
(* Bounds of the explored inputs                                           *)
(***************************************************************************)
\* window starts of the scheduler runs: SegBase + 0 .. SegBase + MaxStartOffset
MaxStartOffset == 3
\* window lengths (end - start) of the simulated runs: 0 .. MaxSimLen
MaxSimLen == 2
\* daily closes are drawn from 1 .. MaxPrice
MaxPrice == 2

\* 2021-01-01, the default BacktestConfig.start_date
SegBase == Ordinal(2021, 1, 1)
\* 2021-09-30, the default BacktestConfig.end_date
SegDefaultEnd == Ordinal(2021, 9, 30)
\* windows of the scheduler runs: the default window, and windows of 0 days to
\* 9 months starting on the first days of 2021 or around the March 2021 expiry
SegStarts ==
    {SegBase + k : k \in 0..MaxStartOffset}
        \cup {Ordinal(2021, 3, 24) + k : k \in 0..MaxStartOffset}
SegLens == {0, 1, 2, 90, 200, SegDefaultEnd - SegBase}
RollBuffers == {-2, 0, 1, 7, 400}

\* windows of the simulated runs: a few days around the March 2021 roll
SimStarts == {Ordinal(2021, 3, 24), Ordinal(2021, 3, 25)}
\* 400 days of buffer push every roll date before the window
SimRollBuffers == {0, 1, 400}
\* the default BacktestConfig.notional_usdt
DefaultNotional == 1000000
Notionals == {40, 150, 1000, DefaultNotional}
DefaultContractSize == 100
future_pair == "BTCUSD"
ContractSizes == {DefaultContractSize, 10}
Prices == 1..MaxPrice
\* the close of every day of a run with the default notional (Scenario B)
ScenarioBPrice == 40000
\* dict.get(day): a close, or None when the day has no kline
OptPrices == {Some(p) : p \in Prices} \cup {None}

(***************************************************************************)
(* State                                                                   *)
(***************************************************************************)
VARIABLES
    \* BacktestConfig
    start_date, end_date, roll_buffer_days, notional_usdt,
    \* SpreadBacktester.run: position, and the locals of
    \* _build_contract_segments
    bpc, contract_size, deliveries, dIdx, cursor, segments,
    \* locals of _simulate
    day, prev_spot_price, prev_future_price, prev_symbol, spot_qty, contracts,
    cum_pnl, records,
    \* rows handed to _write_csv (None until it is called)
    csv_rows,
    \* ExecutionConfig, and the SpreadExecutor fields read by a TWAP run
    \* (_spot_filter, _future_filter, contract_size)
    config, executor,
    \* the running call: "open" (open_position) or "close" (close_position
    \* with its two arguments), and its position
    flow, spot_target_qty, future_target_contracts, tpc,
    \* locals of _run_twap_open
    idx, spot_notional_remaining, future_notional_remaining,
    \* locals of _run_twap_close
    spot_qty_remaining, future_remaining,
    \* what the last tick did, the orders it built, and the running totals of
    \* executed amounts, order_executor.place_order calls and time.sleep calls
    last_tick, tick_orders, spot_executed, future_executed, place_calls,
    sleeps, residual_warning,
    \* time.time() - start_time at the start of the current tick (seconds),
    \* next_run - start_time, the orders handed to
    \* order_executor.place_order so far, and the exception that ended the run
    clock, next_run, gateway, error,
    \* one call of the order builder of a slice placer: its arguments and the
    \* order it built (None before the call)
    order_call, built_order,
    \* one call of _select_front_contract: the exchange metadata and clock it
    \* reads, and its outcome (None before the call)
    front_call, front_result

cfgVars == <<start_date, end_date, roll_buffer_days, notional_usdt>>
segVars == <<contract_size, deliveries, dIdx, cursor, segments>>
simVars == <<day, prev_spot_price, prev_future_price, prev_symbol, spot_qty,
             contracts, cum_pnl, records>>
btVars == <<cfgVars, bpc, segVars, simVars, csv_rows>>
callVars == <<config, executor, flow, spot_target_qty, future_target_contracts>>
remVars == <<spot_notional_remaining, future_notional_remaining,
             spot_qty_remaining, future_remaining>>
logVars == <<last_tick, tick_orders, spot_executed, future_executed,
             place_calls, sleeps, residual_warning>>
runVars == <<clock, next_run, gateway, error>>
twVars == <<callVars, tpc, idx, remVars, logVars, runVars>>
helperVars == <<order_call, built_order, front_call, front_result>>
vars == <<btVars, twVars, helperVars>>

\* no helper is being called on its own
HelpersIdle ==
    /\ order_call = None
    /\ built_order = None
    /\ front_call = None
    /\ front_result = None

\* no execution run is in progress
TwIdle ==
    /\ config = None
    /\ executor = None
    /\ flow = "none"
    /\ spot_target_qty = None
    /\ future_target_contracts = None
    /\ tpc = "idle"
    /\ idx = 0
    /\ spot_notional_remaining = None
    /\ future_notional_remaining = None
    /\ spot_qty_remaining = None
    /\ future_remaining = None
    /\ last_tick = None
    /\ tick_orders = <<>>
    /\ spot_executed = 0
    /\ future_executed = 0
    /\ place_calls = 0
    /\ sleeps = 0
    /\ residual_warning = FALSE
    /\ clock = 0
    /\ next_run = 0
    /\ gateway = <<>>
    /\ error = None

(***************************************************************************)
(* Contract roll scheduler: _build_contract_segments                       *)
(***************************************************************************)
SetMin(S) == CHOOSE x \in S : \A y \in S : x <= y

\* sorted(set(deliveries))
RECURSIVE SortedSeq(_)
SortedSeq(S) ==
    IF S = {} THEN <<>> ELSE <<SetMin(S)>> \o SortedSeq(S \ {SetMin(S)})

\* lines 142-151: last Fridays of Mar/Jun/Sep/Dec within [start-365, end+365]
Deliveries(start, end) ==
    LET earliest == start - 365
        latest == end + 365
        all == {_last_friday(y, m) :
                    y \in YearOf(earliest)..YearOf(latest), m \in {3, 6, 9, 12}}
    IN  SortedSeq({d \in all : ~(d < earliest \/ d > latest)})

\* a scheduler that rolls on the delivery date itself
RollDate_unbuffered(delivery) == delivery

\* line 154
RollDate(delivery) == delivery - roll_buffer_days

\* a scheduler that forgets to clamp the segment to the window
SegmentEnd_unclamped(delivery) == RollDate(delivery)

\* line 156
SegmentEnd(delivery) == Min(RollDate(delivery), end_date)

\* line 157: the delivery contributes no segment
SkipsDelivery(delivery) == cursor > SegmentEnd(delivery)

\* lines 162-163 and the exhaustion of the for loop
LoopEnds(newCursor) == newCursor > end_date \/ dIdx = Len(deliveries)

\* a scheduler that returns a truncated list instead of raising
AfterLoop_silent(newCursor) == "segments_done"

\* lines 165-167
AfterLoop(newCursor) ==
    IF newCursor <= end_date THEN "raised_coverage" ELSE "segments_done"

\* one iteration of the for loop that hits `continue` (line 158)
SegSkip ==
    /\ bpc = "segments"
    /\ dIdx <= Len(deliveries)
    /\ SkipsDelivery(deliveries[dIdx])
    /\ dIdx' = dIdx + 1
    /\ bpc' = IF dIdx = Len(deliveries) THEN AfterLoop(cursor) ELSE "segments"
    /\ UNCHANGED <<cfgVars, contract_size, deliveries, cursor, segments,
                   simVars, csv_rows, twVars, helperVars>>

\* one iteration of the for loop that appends a segment (lines 159-163)
SegAppend ==
    /\ bpc = "segments"
    /\ dIdx <= Len(deliveries)
    /\ ~SkipsDelivery(deliveries[dIdx])
    /\ LET delivery == deliveries[dIdx]
           end == SegmentEnd(delivery)
       IN  /\ segments' = Append(segments,
                             [symbol |-> _format_delivery_symbol(future_pair, delivery),
                              start |-> cursor,
                              end |-> end,
                              contractSize |-> contract_size])
           /\ cursor' = end + 1
           /\ bpc' = IF LoopEnds(end + 1) THEN AfterLoop(end + 1) ELSE "segments"
    /\ dIdx' = dIdx + 1
    /\ UNCHANGED <<cfgVars, contract_size, deliveries, simVars, csv_rows,
                   twVars, helperVars>>

SimInitVars ==
    /\ day = None
    /\ prev_spot_price = None
    /\ prev_future_price = None
    /\ prev_symbol = None
    /\ spot_qty = None
    /\ contracts = None
    /\ cum_pnl = 0
    /\ records = <<>>
    /\ csv_rows = None

\* state on entry to _build_contract_segments, after lines 137-151
BuildInit ==
    /\ bpc = "segments"
    /\ contract_size \in ContractSizes
    /\ deliveries = Deliveries(start_date, end_date)
    /\ dIdx = 1
    /\ cursor = start_date
    /\ segments = <<>>

SegInit ==
    /\ start_date \in SegStarts
    /\ \E len \in SegLens : end_date = start_date + len
    /\ roll_buffer_days \in RollBuffers
    /\ notional_usdt \in Notionals
    /\ BuildInit
    /\ SimInitVars
    /\ TwIdle
    /\ HelpersIdle

SegNext == SegSkip \/ SegAppend

SpecSeg == SegInit /\ [][SegNext]_vars

(***************************************************************************)
(* Mark-to-market simulator: SpreadBacktester.run and _simulate            *)
(*                                                                         *)
(* Coin amounts and PnL are exact multiples of 1/PnlDen, where PnlDen is   *)
(* a common multiple of every price: 1.0 / price is PnlDen \div price.     *)
(***************************************************************************)
RECURSIVE Factorial(_)
Factorial(n) == IF n <= 1 THEN 1 ELSE n * Factorial(n - 1)

PnlDen == Factorial(MaxPrice) * ScenarioBPrice

\* 1.0 / price, in units of 1/PnlDen
Reciprocal(price) == PnlDen \div price

\* Python's `a or b` on an Optional[float]
OrElse(a, b) == IF a = None \/ a[1] = 0 THEN b ELSE a[1]

\* round(num / den) for num >= 0, den > 0: ties go to the even integer
RoundHalfEven(num, den) ==
    LET q == num \div den
        r == num % den
    IN  IF 2 * r < den THEN q
        ELSE IF 2 * r > den THEN q + 1
        ELSE IF q % 2 = 0 THEN q ELSE q + 1

\* lines 209-216: day_to_symbol.get(day); a later segment overwrites an earlier
DayToSymbol(d) ==
    LET covering == {i \in 1..Len(segments) :
                        segments[i].start <= d /\ d <= segments[i].end}
    IN  IF covering = {} THEN None
        ELSE segments[CHOOSE i \in covering : \A j \in covering : j <= i].symbol

\* segment_meta[symbol]["contractSize"]
SegmentContractSize(symbol) ==
    LET having == {i \in 1..Len(segments) : segments[i].symbol = symbol}
    IN  segments[CHOOSE i \in having : \A j \in having : j <= i].contractSize

\* the closes a day of the run can have: a run with the default notional sees
\* the flat Scenario B close, any other run sees every path over Prices
DayPrices == IF notional_usdt = DefaultNotional THEN {ScenarioBPrice} ELSE Prices

\* a simulator that re-opens the position on the first day only
RollFlag_first_day_only(symbol) == prev_spot_price = None

\* line 234
RollFlag(symbol) == symbol # prev_symbol \/ prev_spot_price = None

\* line 236
RollSpotQty(spot_price) == notional_usdt * Reciprocal(spot_price)

\* a position sizing without the floor of one contract
RollContracts_unfloored(symbol) ==
    RoundHalfEven(notional_usdt, SegmentContractSize(symbol))

\* line 238
RollContracts(symbol) ==
    Max(1, RoundHalfEven(notional_usdt, SegmentContractSize(symbol)))

\* a future leg marked on the basis to spot instead of the day's change
CarryFuturePnl_basis(symbol, spot_price, future_price) ==
    (-1) * OrElse(contracts, 0) * SegmentContractSize(symbol)
        * (Reciprocal(spot_price) - Reciprocal(future_price))
        * spot_price

\* line 242, the carry of the spot leg
CarrySpotPnl(spot_price) ==
    OrElse(spot_qty, 0) * (spot_price - OrElse(prev_spot_price, spot_price))

\* lines 243-247, the carry of the inverse future leg in quote currency
CarryFuturePnl(symbol, spot_price, future_price) ==
    (-1) * OrElse(contracts, 0) * SegmentContractSize(symbol)
        * (Reciprocal(OrElse(prev_future_price, future_price))
            - Reciprocal(future_price))
        * spot_price

\* a simulator that books the carry on roll days too
SpotPnl_always_carry(roll, spot_price) == CarrySpotPnl(spot_price)

\* lines 239 and 242
SpotPnl(roll, spot_price) == IF roll THEN 0 ELSE CarrySpotPnl(spot_price)

\* lines 240 and 244-247
FuturePnl(roll, symbol, spot_price, future_price) ==
    IF roll THEN 0 ELSE CarryFuturePnl(symbol, spot_price, future_price)

\* a simulator that overwrites the running sum
CumPnl_overwrite(total) == total

\* line 250
CumPnl(total) == cum_pnl + total

\* a simulator that re-sizes the spot leg at every close
HeldSpotQty_rebalanced(roll, spot_price) == Some(RollSpotQty(spot_price))

\* lines 235-236: spot_qty after the roll branch
HeldSpotQty(roll, spot_price) ==
    IF roll THEN Some(RollSpotQty(spot_price)) ELSE spot_qty

\* lines 235-238: contracts after the roll branch
HeldContracts(roll, symbol) ==
    IF roll THEN Some(RollContracts(symbol)) ELSE contracts

\* lines 103-104 and 209-225: the segments are handed to _simulate
EnterSimulate ==
    /\ bpc = "segments_done"
    /\ bpc' = "simulate"
    /\ day' = start_date
    /\ UNCHANGED <<cfgVars, segVars, prev_spot_price, prev_future_price,
                   prev_symbol, spot_qty, contracts, cum_pnl, records, csv_rows,
                   twVars, helperVars>>

\* a run that flushes the days simulated so far before aborting
SimMissing_flush(spot_price, future_price) ==
    /\ bpc = "simulate"
    /\ day <= end_date
    /\ \/ spot_price = None
       \/ DayToSymbol(day) = None
       \/ future_price = None
    /\ bpc' = "raised_missing"
    /\ csv_rows' = Some(records)
    /\ UNCHANGED <<cfgVars, segVars, simVars, twVars, helperVars>>

\* lines 226-232: a close is missing for the day, the run aborts
SimMissing(spot_price, future_price) ==
    /\ bpc = "simulate"
    /\ day <= end_date
    /\ \/ spot_price = None
       \/ DayToSymbol(day) = None
       \/ future_price = None
    /\ bpc' = "raised_missing"
    /\ UNCHANGED <<cfgVars, segVars, simVars, csv_rows, twVars, helperVars>>

\* lines 226-268: one day of the loop; after the last day run() summarises
\* and writes the CSV (lines 105-108)
SimDay(spot_price, future_price) ==
    /\ bpc = "simulate"
    /\ day <= end_date
    /\ DayToSymbol(day) # None
    /\ LET symbol == DayToSymbol(day)
           roll == RollFlag(symbol)
           spot_pnl == SpotPnl(roll, spot_price)
           future_pnl == FuturePnl(roll, symbol, spot_price, future_price)
           total == spot_pnl + future_pnl
           new_qty == HeldSpotQty(roll, spot_price)
           new_contracts == HeldContracts(roll, symbol)
           rec == [date |-> day,
                   spot_price |-> spot_price,
                   future_symbol |-> symbol,
                   future_price |-> future_price,
                   spot_position |-> OrElse(new_qty, 0),
                   future_contracts |-> OrElse(new_contracts, 0),
                   spot_pnl |-> spot_pnl,
                   future_pnl |-> future_pnl,
                   total_pnl |-> total,
                   cum_pnl |-> CumPnl(total),
                   roll |-> roll]
       IN  /\ spot_qty' = new_qty
           /\ contracts' = new_contracts
           /\ cum_pnl' = CumPnl(total)
           /\ records' = Append(records, rec)
           /\ prev_spot_price' = Some(spot_price)
           /\ prev_future_price' = Some(future_price)
           /\ prev_symbol' = symbol
           /\ day' = day + 1
           /\ IF day = end_date
              THEN bpc' = "done" /\ csv_rows' = Some(Append(records, rec))
              ELSE bpc' = "simulate" /\ csv_rows' = csv_rows
    /\ UNCHANGED <<cfgVars, segVars, twVars, helperVars>>

SimInit ==
    /\ start_date \in SimStarts
    /\ \E len \in 0..MaxSimLen : end_date = start_date + len
    /\ roll_buffer_days \in SimRollBuffers
    /\ notional_usdt \in Notionals
    /\ BuildInit
    /\ SimInitVars
    /\ TwIdle
    /\ HelpersIdle

SimNext ==
    \/ SegSkip
    \/ SegAppend
    \/ EnterSimulate
    \/ \E sp \in OptPrices, fp \in OptPrices : SimMissing(sp, fp)
    \/ \E sp \in DayPrices, fp \in DayPrices : SimDay(sp, fp)

SpecSim == SimInit /\ [][SimNext]_vars

(***************************************************************************)
(* TWAP execution: quant_trader/execution.py                               *)
(*                                                                         *)
(* Sizes (spot quantity, contracts) and notionals are whole numbers of     *)
(* units of 1/One; prices and the contract size are whole numbers.  A      *)
(* planned size is the exact fraction num/den.  Step sizes are positive    *)
(* (the step == 0 shortcut of _round_to_step is not exercised), and the    *)
(* non-decimal steps explored (0.5, 0.375) are binary fractions, for which *)
(* the float arithmetic of the code is exact.                              *)
(***************************************************************************)
\* 1.0 in units
One == 10000
\* daily book: the spot ask is drawn from 0 .. MaxAsk (0: no price)
MaxAsk == 2

\* ExecutionConfig defaults
DefaultMinSpotQty == 1
DefaultDurationHours == 24
DefaultSliceIntervalMinutes == 5

\* (duration_hours, slice_interval_minutes) of the explored runs
TimeConfigs == {<<0, DefaultSliceIntervalMinutes>>, <<1, 90>>, <<1, 30>>, <<1, 20>>}
\* config.notional_usdt of the opening runs, in units: 1.5 and 250 USDT
OpenNotionals == {15000, 2500000}
\* spot_qty / futures_contracts of the closing runs, in units
CloseSpotTargets == {9, 50, 17000}
CloseFutureTargets == {24000, 25000, 30000}
\* LOT_SIZE filters, in units: stepSize 0.001, 0.375, 0.5, 1; minQty 0.001, 0.01
SpotSteps == {10, 3750, 5000, One}
SpotMinQtys == {10, 100}
\* contract stepSize 0.1 and 1
FutureSteps == {1000, One}
ExecContractSizes == {100}

\* floor(10 ^ (k + 1/2)) for k = 0..5: log10(x) rounds to the number of
\* these that x exceeds
SqrtTenTimesPow10 == {3, 31, 316, 3162, 31622, 316227}

\* round(log10(x)) for a whole x >= 1
RoundLog10(x) == Cardinality({t \in SqrtTenTimesPow10 : x > t})

\* line 22: precision = max(0, int(round(-math.log10(step))))
Precision(step) == Max(0, RoundLog10(One) - RoundLog10(step))

\* 10 ^ -precision in units: what round(x, precision) rounds to
Quantum(step) == One \div (10 ^ Precision(step))

\* line 23, the float quotient value / step: for these k the IEEE double
\* (k * step) / step lies just below k, so that math.floor gives k - 1
\* (0.3 / 0.1 is 2.9999999999999996).  Tabulated for the steps 0.1 and 0.001
\* and k up to 70; a step that is a binary fraction (1, 0.5, 0.375) divides
\* exactly.
FloatLowQuotients(step) ==
    IF step = 1000
    THEN {3, 6, 7, 12, 14, 19, 23, 24, 28, 29, 33, 38, 41, 43, 46, 48, 51, 53, 56, 58, 61, 63, 66}
    ELSE IF step = 10 THEN {43, 51, 59}
    ELSE {}

\* the table of low quotients is followed up to this quotient; a larger
\* quotient is taken as exact
FloatTableMax == 60

\* line 23: math.floor(value / step), value = num/den
FloorQuotient(num, den, step) ==
    LET k == num \div (den * step)
    IN  IF /\ num % (den * step) = 0
           /\ k <= FloatTableMax
           /\ k \in FloatLowQuotients(step)
        THEN k - 1 ELSE k

\* line 23: math.floor(value / step) * step
FloorToStep(num, den, step) == FloorQuotient(num, den, step) * step

\* lines 19-24, for step > 0 and value = num/den >= 0
_round_to_step(num, den, step) ==
    RoundHalfEven(FloorToStep(num, den, step), Quantum(step)) * Quantum(step)

\* lines 39-42
num_slices(cfg) ==
    Max(1, (cfg.duration_hours * 60) \div cfg.slice_interval_minutes)

\* a slice count without the floor of one slice
EffectiveSlices_unclamped(cfg) ==
    (cfg.duration_hours * 60) \div cfg.slice_interval_minutes

\* line 134 / 191: slices = self.config.num_slices
EffectiveSlices(cfg) == num_slices(cfg)

\* line 243
EffectiveMinQty == Max(config.min_spot_qty, executor.spot_filter.minQty)

\* line 274
MinContract ==
    LET step == executor.future_filter.stepSize
    IN  Max(step, IF step >= One THEN One ELSE step)

\* a spot slicer without the minimum-size check of lines 245-246
SpotSkipped_never(clip) == FALSE

\* lines 245-246
SpotSkipped(clip) == clip < EffectiveMinQty

\* lines 276-277
FutureSkipped(clip) == clip < MinContract

\* a gateway that is called in dry-run mode too
SubmitCalls_always == IF config.dry_run THEN 1 ELSE 1

\* lines 303-308: the number of order_executor.place_order calls it makes
SubmitCalls == IF config.dry_run THEN 0 ELSE 1

\* lines 303-308: the orders of a tick that reach order_executor.place_order
Submitted(orders) == IF SubmitCalls = 1 THEN orders ELSE <<>>

\* binance_simulator.py lines 38-40: the status place_order reports
Statuses == {"FILLED", "CANCELED"}

\* line 307: the responses place_order can give for the orders of one leg
\* (None when nothing of the leg reaches the gateway)
Responses(orders) ==
    IF Submitted(orders) = <<>> THEN {None} ELSE {Some(st) : st \in Statuses}

\* the place_order calls of the current tick
GatewayCalls(orders) ==
    [i \in 1..Len(orders) |-> [tick |-> idx, order |-> orders[i]]]

\* lines 240-268 (market orders): [rounded, size returned, orders submitted]
_place_spot_slice(side, num, den) ==
    IF num <= 0 THEN [rounded |-> None, size |-> 0, orders |-> <<>>]
    ELSE LET clip == _round_to_step(num, den, executor.spot_filter.stepSize)
         IN  IF SpotSkipped(clip)
             THEN [rounded |-> Some(clip), size |-> 0, orders |-> <<>>]
             ELSE [rounded |-> Some(clip), size |-> clip,
                   orders |-> <<[symbol |-> executor.spot_symbol,
                                 account |-> "SPOT",
                                 side |-> side,
                                 type |-> "MARKET",
                                 quantity |-> clip]>>]

\* line 279: int(clip) if step >= 1.0 else clip
FutureQuantity(clip) ==
    IF executor.future_filter.stepSize >= One THEN (clip \div One) * One
    ELSE clip

\* lines 270-301 (market orders)
_place_future_slice(side, num, den) ==
    IF num <= 0 THEN [rounded |-> None, size |-> 0, orders |-> <<>>]
    ELSE LET clip == _round_to_step(num, den, executor.future_filter.stepSize)
         IN  IF FutureSkipped(clip)
             THEN [rounded |-> Some(clip), size |-> 0, orders |-> <<>>]
             ELSE [rounded |-> Some(clip), size |-> clip,
                   orders |-> <<[symbol |-> executor.future_symbol,
                                 account |-> "FUTURE",
                                 side |-> side,
                                 type |-> "MARKET",
                                 quantity |-> FutureQuantity(clip)]>>]

\* a counter update that adds the executed amount
Reduce_added(remaining, executed) == remaining + executed

\* lines 160-161 and 206-207: max(0.0, remaining - executed)
Reduce(remaining, executed) == Max(0, remaining - executed)

\* a pacing that sleeps in dry-run mode too
PacingSleeps_always == IF idx + 1 < EffectiveSlices(config) THEN 1 ELSE 0

\* lines 170-173 and 216-219: the number of time.sleep calls after tick idx
PacingSleeps == IF ~config.dry_run /\ idx + 1 < EffectiveSlices(config) THEN 1 ELSE 0

\* lines 44-46
slice_interval_seconds(cfg) == cfg.slice_interval_minutes * 60

\* seconds the work of one tick takes (book queries and order round trips)
TickDurations == {0, 2000}

\* a dry run never reads the clock after line 136, so its advance is not
\* followed there
Elapsed == IF config.dry_run THEN {0} ELSE TickDurations

\* lines 170-173 and 216-219, reached at time t: next_run and the time at
\* which time.sleep(max(0.0, next_run - time.time())) returns
Pacing(t) ==
    IF PacingSleeps = 1
    THEN [next_run |-> next_run + slice_interval_seconds(config),
          clock |-> Max(t, next_run + slice_interval_seconds(config))]
    ELSE [next_run |-> next_run, clock |-> t]

\* the for loop is over after tick idx
LastTick == idx + 1 >= EffectiveSlices(config)

\* lines 175 and 221: the residual thresholds 1.0 USDT and 1e-6 units
ResidualOpen(spot_left, future_left) == spot_left > One \/ future_left > One
ResidualClose(spot_left, future_left) ==
    spot_left > One \div 1000000 \/ future_left > One \div 1000000

\* a closing run that trades in the direction of the opening run
CloseSides_same == [spot |-> "BUY", future |-> "SELL"]

\* line 115: self._run_twap_open("BUY", "SELL")
OpenSides == [spot |-> "BUY", future |-> "SELL"]
\* line 128: self._run_twap_close("SELL", "BUY", ...)
CloseSides == [spot |-> "SELL", future |-> "BUY"]

\* lines 140-155: the two slices of an opening tick at spot price spot_ask
OpenSlices(spot_ask) ==
    LET slices_left == Max(1, EffectiveSlices(config) - idx)
    IN  [spot_planned |-> <<spot_notional_remaining, slices_left * spot_ask>>,
         future_planned |-> <<future_notional_remaining,
                              slices_left * executor.contract_size>>,
         \* planned_spot_qty = remaining / slices_left / spot_price
         spot |-> _place_spot_slice(OpenSides.spot, spot_notional_remaining,
                                    slices_left * spot_ask),
         \* planned_future_contracts = remaining / slices_left / contract_size
         future |-> _place_future_slice(OpenSides.future,
                                        future_notional_remaining,
                                        slices_left * executor.contract_size)]

\* lines 197-204: the two slices of a closing tick
CloseSlices ==
    LET slices_left == Max(1, EffectiveSlices(config) - idx)
    IN  [spot_planned |-> <<spot_qty_remaining, slices_left>>,
         future_planned |-> <<future_remaining, slices_left>>,
         spot |-> _place_spot_slice(CloseSides.spot, spot_qty_remaining,
                                    slices_left),
         future |-> _place_future_slice(CloseSides.future, future_remaining,
                                        slices_left)]

\* lines 139-145 of _run_twap_open: no spot price, the slice is skipped by
\* `continue` (nothing is placed, nothing is reduced, no pacing sleep)
TwOpenSkip(spot_ask, elapsed) ==
    /\ tpc = "running"
    /\ flow = "open"
    /\ idx < EffectiveSlices(config)
    /\ elapsed \in Elapsed
    /\ spot_ask <= 0
    /\ last_tick' = Some([skipped |-> TRUE,
                          tick |-> idx,
                          started |-> clock,
                          spot_price |-> spot_ask,
                          spot_before |-> spot_notional_remaining,
                          future_before |-> future_notional_remaining])
    /\ tick_orders' = <<>>
    /\ idx' = idx + 1
    /\ clock' = clock + elapsed
    /\ IF LastTick
       THEN /\ tpc' = "done"
            /\ residual_warning' = ResidualOpen(spot_notional_remaining,
                                                future_notional_remaining)
       ELSE UNCHANGED <<tpc, residual_warning>>
    /\ UNCHANGED <<btVars, helperVars, callVars, remVars, spot_executed, future_executed,
                   place_calls, sleeps, next_run, gateway, error>>

\* lines 139-173 of _run_twap_open with a spot price, and lines 175-180
\* after the last slice
TwOpenSlice(spot_ask, elapsed) ==
    /\ tpc = "running"
    /\ flow = "open"
    /\ idx < EffectiveSlices(config)
    /\ elapsed \in Elapsed
    /\ spot_ask > 0
    /\ LET spot_price == spot_ask
           slices == OpenSlices(spot_ask)
           spot == slices.spot
           future == slices.future
           executed_spot_notional == spot.size * spot_price
           executed_future_notional == future.size * executor.contract_size
           spot_left == Reduce(spot_notional_remaining, executed_spot_notional)
           future_left == Reduce(future_notional_remaining,
                                 executed_future_notional)
           submitted == Submitted(spot.orders \o future.orders)
       IN  /\ \E spot_status \in Responses(spot.orders),
                 future_status \in Responses(future.orders) :
                 last_tick' = Some([skipped |-> FALSE,
                                    tick |-> idx,
                                    started |-> clock,
                                    spot_price |-> spot_price,
                                    spot_planned |-> slices.spot_planned,
                                    future_planned |-> slices.future_planned,
                                    spot_rounded |-> spot.rounded,
                                    future_rounded |-> future.rounded,
                                    spot_size |-> spot.size,
                                    future_size |-> future.size,
                                    spot_status |-> spot_status,
                                    future_status |-> future_status,
                                    spot_before |-> spot_notional_remaining,
                                    future_before |-> future_notional_remaining])
           /\ spot_notional_remaining' = spot_left
           /\ future_notional_remaining' = future_left
           /\ spot_executed' = spot_executed + executed_spot_notional
           /\ future_executed' = future_executed + executed_future_notional
           /\ tick_orders' = spot.orders \o future.orders
           /\ place_calls' = place_calls + Len(submitted)
           /\ gateway' = gateway \o GatewayCalls(submitted)
           /\ IF LastTick
              THEN /\ tpc' = "done"
                   /\ residual_warning' = ResidualOpen(spot_left, future_left)
              ELSE UNCHANGED <<tpc, residual_warning>>
    /\ sleeps' = sleeps + PacingSleeps
    /\ next_run' = Pacing(clock + elapsed).next_run
    /\ clock' = Pacing(clock + elapsed).clock
    /\ idx' = idx + 1
    /\ UNCHANGED <<btVars, helperVars, callVars, spot_qty_remaining, future_remaining,
                   error>>

\* lines 196-219 of _run_twap_close, and lines 221-226 after the last slice;
\* the spot bid it queries (line 198) only prices limit orders
TwCloseSlice(spot_bid, elapsed) ==
    /\ tpc = "running"
    /\ flow = "close"
    /\ idx < EffectiveSlices(config)
    /\ elapsed \in Elapsed
    /\ LET slices == CloseSlices
           spot == slices.spot
           future == slices.future
           spot_left == Reduce(spot_qty_remaining, spot.size)
           future_left == Reduce(future_remaining, future.size)
           submitted == Submitted(spot.orders \o future.orders)
       IN  /\ \E spot_status \in Responses(spot.orders),
                 future_status \in Responses(future.orders) :
                 last_tick' = Some([skipped |-> FALSE,
                                    tick |-> idx,
                                    started |-> clock,
                                    spot_price |-> spot_bid,
                                    spot_planned |-> slices.spot_planned,
                                    future_planned |-> slices.future_planned,
                                    spot_rounded |-> spot.rounded,
                                    future_rounded |-> future.rounded,
                                    spot_size |-> spot.size,
                                    future_size |-> future.size,
                                    spot_status |-> spot_status,
                                    future_status |-> future_status,
                                    spot_before |-> spot_qty_remaining,
                                    future_before |-> future_remaining])
           /\ spot_qty_remaining' = spot_left
           /\ future_remaining' = future_left
           /\ spot_executed' = spot_executed + spot.size
           /\ future_executed' = future_executed + future.size
           /\ tick_orders' = spot.orders \o future.orders
           /\ place_calls' = place_calls + Len(submitted)
           /\ gateway' = gateway \o GatewayCalls(submitted)
           /\ IF LastTick
              THEN /\ tpc' = "done"
                   /\ residual_warning' = ResidualClose(spot_left, future_left)
              ELSE UNCHANGED <<tpc, residual_warning>>
    /\ sleeps' = sleeps + PacingSleeps
    /\ next_run' = Pacing(clock + elapsed).next_run
    /\ clock' = Pacing(clock + elapsed).clock
    /\ idx' = idx + 1
    /\ UNCHANGED <<btVars, helperVars, callVars, spot_notional_remaining,
                   future_notional_remaining, error>>

\* lines 141, 150, 198-199: a book query of the tick raises; nothing catches
\* it, so it leaves _run_twap_open / _run_twap_close and its caller
TwFetchRaises ==
    /\ tpc = "running"
    /\ idx < EffectiveSlices(config)
    /\ tpc' = "raised"
    /\ error' = Some("fetch")
    /\ UNCHANGED <<btVars, helperVars, callVars, idx, remVars, logVars, clock, next_run,
                   gateway>>

\* a placer that goes on to the future leg after a failed spot submission
HandedOver_continues(leg, spot_orders, future_orders) ==
    spot_orders \o future_orders

\* lines 154-155: the orders handed to place_order on a tick where the
\* submission of `leg` raises (the spot leg is placed first)
HandedOver(leg, spot_orders, future_orders) ==
    IF leg = "SPOT" THEN spot_orders ELSE spot_orders \o future_orders

\* lines 307, 267 / 300, 154-155 / 203-204: place_order raises for the order
\* of `leg` on a live tick; the exception leaves the loop before the
\* counters are reduced
TwSubmitRaises(spot_price, leg) ==
    /\ tpc = "running"
    /\ idx < EffectiveSlices(config)
    /\ ~config.dry_run
    /\ flow = "open" => spot_price > 0
    /\ LET slices == IF flow = "open" THEN OpenSlices(spot_price)
                     ELSE CloseSlices
           failing == IF leg = "SPOT" THEN slices.spot.orders
                      ELSE slices.future.orders
           handed == HandedOver(leg, slices.spot.orders, slices.future.orders)
       IN  /\ failing # <<>>
           /\ gateway' = gateway \o GatewayCalls(handed)
           /\ place_calls' = place_calls + Len(handed)
    /\ tpc' = "raised"
    /\ error' = Some(leg)
    /\ UNCHANGED <<btVars, helperVars, callVars, idx, remVars, last_tick, tick_orders,
                   spot_executed, future_executed, sleeps, residual_warning,
                   clock, next_run>>

\* no backtest is in progress
BtIdle ==
    /\ start_date = None
    /\ end_date = None
    /\ roll_buffer_days = None
    /\ notional_usdt = None
    /\ bpc = "idle"
    /\ contract_size = None
    /\ deliveries = <<>>
    /\ dIdx = 0
    /\ cursor = None
    /\ segments = <<>>
    /\ SimInitVars

Executors ==
    [spot_symbol : {"BTCUSDT"},
     future_symbol : {"BTCUSD_210326"},
     spot_filter : [stepSize : SpotSteps, minQty : SpotMinQtys],
     future_filter : [stepSize : FutureSteps],
     contract_size : ExecContractSizes]

ExecutionConfigs(times, notionals) ==
    {[notional_usdt |-> n,
      duration_hours |-> t[1],
      slice_interval_minutes |-> t[2],
      min_spot_qty |-> DefaultMinSpotQty,
      dry_run |-> d,
      use_market_orders |-> TRUE] : n \in notionals, t \in times, d \in BOOLEAN}

\* entry to _run_twap_open (lines 132-137) or _run_twap_close (lines 189-194)
TwEntry ==
    /\ tpc = "running"
    /\ idx = 0
    /\ \/ /\ flow = "open"
          /\ spot_target_qty = None
          /\ future_target_contracts = None
          /\ spot_notional_remaining = config.notional_usdt
          /\ future_notional_remaining = config.notional_usdt
          /\ spot_qty_remaining = None
          /\ future_remaining = None
       \/ /\ flow = "close"
          /\ spot_target_qty \in CloseSpotTargets
          /\ future_target_contracts \in CloseFutureTargets
          /\ spot_notional_remaining = None
          /\ future_notional_remaining = None
          /\ spot_qty_remaining = Max(0, spot_target_qty)
          /\ future_remaining = Max(0, future_target_contracts)
    /\ last_tick = None
    /\ tick_orders = <<>>
    /\ spot_executed = 0
    /\ future_executed = 0
    /\ place_calls = 0
    /\ sleeps = 0
    /\ residual_warning = FALSE
    /\ clock = 0
    /\ next_run = 0
    /\ gateway = <<>>
    /\ error = None

\* Scenario C: the default 24 h / 5 min schedule in dry-run mode; the opening
\* run of 1.5 USDT trades whole units (only its last slices reach one lot),
\* the closing run trades lots of 0.001
ScenarioCInit ==
    /\ config \in {c \in ExecutionConfigs({<<DefaultDurationHours,
                                             DefaultSliceIntervalMinutes>>},
                                          {15000}) : c.dry_run}
    /\ executor \in {e \in Executors :
                        /\ e.spot_filter.minQty = 10
                        /\ e.future_filter.stepSize = One}
    /\ flow = "open" => executor.spot_filter.stepSize = One
    /\ flow = "close" => executor.spot_filter.stepSize = 10

TwInit ==
    /\ BtIdle
    /\ HelpersIdle
    /\ flow \in {"open", "close"}
    /\ \/ /\ config \in ExecutionConfigs(TimeConfigs, OpenNotionals)
          /\ executor \in Executors
       \/ ScenarioCInit
    /\ TwEntry

\* a tick that runs to its end
TwTick ==
    \/ \E spot_ask \in 0..MaxAsk, elapsed \in TickDurations :
          TwOpenSkip(spot_ask, elapsed)
    \/ \E spot_ask \in 0..MaxAsk, elapsed \in TickDurations :
          TwOpenSlice(spot_ask, elapsed)
    \/ \E spot_bid \in {0, MaxAsk}, elapsed \in TickDurations :
          TwCloseSlice(spot_bid, elapsed)

TwNext ==
    \/ TwTick
    \/ TwFetchRaises
    \/ \E spot_price \in 0..MaxAsk, leg \in {"SPOT", "FUTURE"} :
          TwSubmitRaises(spot_price, leg)

SpecTwap == TwInit /\ [][TwNext]_vars

(***************************************************************************)
(* Order building: _limit_price and lines 248-266 of _place_spot_slice     *)
(*                                                                         *)
(* Prices and tick sizes are whole numbers of units of 1/One; the price    *)
(* before rounding is the exact fraction num / 10000.                      *)
(***************************************************************************)
\* (bid, ask) of the explored books: 1.0005/1.0006, 1.0144/1.0145, 1.5/1.5,
\* 2.0/2.001
LimitBooks ==
    {<<10005, 10006>>, <<10144, 10145>>, <<15000, 15000>>, <<20000, 20010>>}
\* config.price_offset_bps of the explored calls (the default is 5.0)
PriceOffsets == {1, 5, 20}
\* PRICE_FILTER tickSize 0.001, 0.1 and 0.5
TickSizes == {10, 1000, 5000}

OrderCalls ==
    [side : {"BUY", "SELL"},
     book : LimitBooks,
     price_offset_bps : PriceOffsets,
     tick_size : TickSizes,
     use_market_orders : BOOLEAN,
     clip : {One}]

\* lines 357-361: the price before rounding, as <<num, den>>;
\* offset = bps / 10000, 1.001 = 10010 / 10000, 0.999 = 9990 / 10000
UnroundedLimitPrice(side, bid, ask, bps) ==
    IF side = "BUY"
    THEN <<Min(ask * (10000 + bps), ask * 10010), 10000>>
    ELSE <<Max(bid * (10000 - bps), bid * 9990), 10000>>

\* lines 356-363
_limit_price(side, bid, ask, tick_size, bps) ==
    LET price == UnroundedLimitPrice(side, bid, ask, bps)
    IN  _round_to_step(price[1], price[2], tick_size)

\* lines 248-266: the order a placer builds for a slice of size clip
BuildOrder(call) ==
    IF call.use_market_orders
    THEN [symbol |-> "BTCUSDT",
          account |-> "SPOT",
          side |-> call.side,
          type |-> "MARKET",
          quantity |-> call.clip]
    ELSE [symbol |-> "BTCUSDT",
          account |-> "SPOT",
          side |-> call.side,
          type |-> "LIMIT",
          timeInForce |-> "GTC",
          quantity |-> call.clip,
          price |-> _limit_price(call.side, call.book[1], call.book[2],
                                 call.tick_size, call.price_offset_bps)]

\* lines 248-267: the placer builds the order of its slice
PlaceOrder ==
    /\ order_call # None
    /\ built_order = None
    /\ built_order' = Some(BuildOrder(order_call))
    /\ UNCHANGED <<btVars, twVars, order_call, front_call, front_result>>

LimitInit ==
    /\ BtIdle
    /\ TwIdle
    /\ order_call \in OrderCalls
    /\ built_order = None
    /\ front_call = None
    /\ front_result = None

LimitNext == PlaceOrder

SpecLimit == LimitInit /\ [][LimitNext]_vars

(***************************************************************************)
(* Front contract selection: _select_front_contract                        *)
(*                                                                         *)
(* info["symbols"] is a sequence of entries; the symbol name of an entry   *)
(* is its position in the sequence.                                        *)
(***************************************************************************)
\* the exchange metadata lists at most MaxSymbols entries
MaxSymbols == 2

\* (status, contractStatus) of an entry: trading by either key, or a status
\* that hides a trading contractStatus
StatusKeys ==
    {<<Some("TRADING"), None>>, <<None, Some("TRADING")>>,
     <<Some("SETTLING"), Some("TRADING")>>}

FrontEntries ==
    [pair : {future_pair, "ETHUSD"},
     contractType : {"CURRENT_QUARTER", "PERPETUAL"},
     status_keys : StatusKeys,
     deliveryDate : 1..3]

FrontCalls ==
    [info : UNION {[1..n -> FrontEntries] : n \in 0..MaxSymbols},
     now : {1, 2}]

\* line 344: symbol.get("status") or symbol.get("contractStatus")
EffectiveStatus(entry) ==
    IF entry.status_keys[1] # None THEN entry.status_keys[1]
    ELSE entry.status_keys[2]

\* a filter that keeps the contract expiring right now
IsCandidate_expiring(entry, now) ==
    /\ ~(entry.pair # future_pair \/ entry.contractType = "PERPETUAL")
    /\ ~(EffectiveStatus(entry) # Some("TRADING"))
    /\ ~(entry.deliveryDate < now)

\* lines 342-349: the entry is appended to candidates
IsCandidate(entry, now) ==
    /\ ~(entry.pair # future_pair \/ entry.contractType = "PERPETUAL")
    /\ ~(EffectiveStatus(entry) # Some("TRADING"))
    /\ ~(entry.deliveryDate <= now)

\* lines 337-353: candidates[0]["symbol"] after the stable sort by
\* deliveryDate, or the ValueError of line 351
_select_front_contract(info, now) ==
    LET candidates == {i \in 1..Len(info) : IsCandidate(info[i], now)}
    IN  IF candidates = {}
        THEN [raised |-> TRUE, symbol |-> 0]
        ELSE [raised |-> FALSE,
              symbol |->
                  CHOOSE i \in candidates : \A j \in candidates :
                      \/ info[i].deliveryDate < info[j].deliveryDate
                      \/ /\ info[i].deliveryDate = info[j].deliveryDate
                         /\ i <= j]

\* line 93: the constructor resolves the front contract
SelectFront ==
    /\ front_call # None
    /\ front_result = None
    /\ front_result' = Some(_select_front_contract(front_call.info,
                                                   front_call.now))
    /\ UNCHANGED <<btVars, twVars, order_call, built_order, front_call>>

FrontInit ==
    /\ BtIdle
    /\ TwIdle
    /\ order_call = None
    /\ built_order = None
    /\ front_call \in FrontCalls
    /\ front_result = None

FrontNext == SelectFront

SpecFront == FrontInit /\ [][FrontNext]_vars

(***************************************************************************)
(* Properties of the contract roll scheduler                               *)
(***************************************************************************)
\* _build_contract_segments has returned its list
SegmentsReturned == bpc \notin {"segments", "raised_coverage"}

Contiguous(segs) ==
    \A i \in 1..(Len(segs) - 1) : segs[i].end + 1 = segs[i + 1].start

\* C1: whenever _build_contract_segments returns, the segments are in
\* chronological order, non-overlapping and contiguous, the first starts at
\* start_date and the last ends at end_date: their union is [start, end].
C1_SegmentsCoverWindow ==
    SegmentsReturned =>
        /\ Len(segments) >= 1
        /\ segments[1].start = start_date
        /\ segments[Len(segments)].end = end_date
        /\ \A i \in 1..Len(segments) : segments[i].start <= segments[i].end
        /\ Contiguous(segments)

\* a returned list of several segments, built after skipping expired deliveries
C1_Witness ==
    /\ SegmentsReturned
    /\ Len(segments) >= 3
    /\ dIdx > Len(segments) + 1

\* Scenario A: the default window 2021-01-01..2021-09-30 with a 1 day buffer
ScenarioA ==
    /\ start_date = Ordinal(2021, 1, 1)
    /\ end_date = Ordinal(2021, 9, 30)
    /\ roll_buffer_days = 1

SegSymbols == [i \in 1..Len(segments) |-> segments[i].symbol[2]]
SegEnds == [i \in 1..Len(segments) |-> segments[i].end]

\* C10 as stated: Scenario A yields exactly 3 segments, bound to the March,
\* June and September 2021 contracts, the last ending at the window end.
C10_ThreeSegments ==
    (ScenarioA /\ SegmentsReturned) =>
        /\ SegSymbols = <<210326, 210625, 210924>>
        /\ segments[Len(segments)].end = end_date
        /\ \A i \in 1..Len(segments) : segments[i].symbol[1] = "BTCUSD"

\* C10 amended: Scenario A yields exactly 4 segments, bound to the March,
\* June, September and December 2021 contracts; the first three end the day
\* before their expiry (the roll date) and the fourth, bound to the December
\* contract, covers 2021-09-24..2021-09-30 and ends at the window end.
C10_FourSegments ==
    (ScenarioA /\ SegmentsReturned) =>
        /\ SegSymbols = <<210326, 210625, 210924, 211231>>
        /\ SegEnds = <<Ordinal(2021, 3, 25), Ordinal(2021, 6, 24),
                       Ordinal(2021, 9, 23), Ordinal(2021, 9, 30)>>
        /\ segments[4].start = Ordinal(2021, 9, 24)
        /\ \A i \in 1..Len(segments) : segments[i].symbol[1] = "BTCUSD"

C10_Witness == ScenarioA /\ SegmentsReturned

(***************************************************************************)
(* Properties of the mark-to-market simulator                              *)
(***************************************************************************)
PrevCum(i) == IF i = 1 THEN 0 ELSE records[i - 1].cum_pnl

\* C6: _simulate produces exactly one record per calendar day of
\* [start, end], in strictly increasing date order (record i is day
\* start + i - 1), and cumPnl_t == cumPnl_{t-1} + totalPnl_t with cumPnl
\* before the first day equal to 0.
C6_DailyRecordsRunningSum ==
    /\ \A i \in 1..Len(records) :
          /\ records[i].date = start_date + (i - 1)
          /\ records[i].cum_pnl = PrevCum(i) + records[i].total_pnl
    /\ bpc = "done" => Len(records) = end_date - start_date + 1

\* a completed run of several days whose running sum moved away from 0
C6_Witness ==
    /\ bpc = "done"
    /\ Len(records) >= 3
    /\ records[2].cum_pnl # 0
    /\ records[3].total_pnl # 0

\* C7: the roll flag of day t is true iff t is the first day of the window or
\* the future symbol of day t differs from that of day t-1.
C7_RollIffSymbolChange ==
    \A i \in 1..Len(records) :
        records[i].roll <=>
            (i = 1 \/ records[i].future_symbol # records[i - 1].future_symbol)

\* a run holding a roll day after the first day and a non-roll day
C7_Witness ==
    \E i, j \in 2..Len(records) : records[i].roll /\ ~records[j].roll

\* C8: on every roll day (the first day included) spotPnl and futurePnl are
\* exactly 0, hence totalPnl is 0 and cumPnl equals the previous day's,
\* whatever the price change since the last day of the old contract.
C8_RollDayZeroPnl ==
    \A i \in 1..Len(records) :
        records[i].roll =>
            /\ records[i].spot_pnl = 0
            /\ records[i].future_pnl = 0
            /\ records[i].total_pnl = 0
            /\ records[i].cum_pnl = PrevCum(i)

\* a roll into the next contract after both closes moved, with PnL carried
C8_Witness ==
    \E i \in 2..Len(records) :
        /\ records[i].roll
        /\ records[i].spot_price # records[i - 1].spot_price
        /\ records[i].future_price # records[i - 1].future_price
        /\ records[i].cum_pnl # 0

\* day i repeats the closes of day i-1 within the same contract
FlatDay(i) ==
    /\ i >= 2
    /\ ~records[i].roll
    /\ records[i].spot_price = records[i - 1].spot_price
    /\ records[i].future_price = records[i - 1].future_price

\* C13: on a non-roll day whose spot close and future close equal those of
\* the previous day, spotPnl, futurePnl and totalPnl are 0 and cumPnl does
\* not change.
C13_FlatPricesZeroPnl ==
    \A i \in 1..Len(records) :
        FlatDay(i) =>
            /\ records[i].spot_pnl = 0
            /\ records[i].future_pnl = 0
            /\ records[i].total_pnl = 0
            /\ records[i].cum_pnl = records[i - 1].cum_pnl

\* a flat day after a day that moved, with spot and future closes apart
C13_Witness ==
    /\ Len(records) >= 3
    /\ FlatDay(3)
    /\ records[2].total_pnl # 0
    /\ records[3].cum_pnl # 0
    /\ records[3].spot_price # records[3].future_price

\* r is notional / size rounded to a nearest integer
NearestInteger(r, notional, size) ==
    /\ 2 * (r * size - notional) <= size
    /\ 2 * (notional - r * size) <= size

\* C14: on every roll day spotQty = notional / spotPrice of that day and
\* contracts = max(1, round(notional / contractSize)); with notional
\* 1,000,000, contractSize 100 and a spot close of 40,000 the record holds
\* spotQty 25.0 and 10,000 contracts.
C14_RollDaySizing ==
    \A i \in 1..Len(records) :
        records[i].roll =>
            /\ records[i].spot_position % notional_usdt = 0
            /\ (records[i].spot_position \div notional_usdt)
                   * records[i].spot_price = PnlDen
            /\ \E r \in {notional_usdt \div contract_size,
                          notional_usdt \div contract_size + 1} :
                   /\ NearestInteger(r, notional_usdt, contract_size)
                   /\ records[i].future_contracts = Max(1, r)
            /\ (/\ notional_usdt = 1000000
                /\ contract_size = 100
                /\ records[i].spot_price = 40000)
                 => /\ records[i].spot_position = 25 * PnlDen
                    /\ records[i].future_contracts = 10000

\* Scenario B on the day it rolls into the next contract
C14_Witness ==
    /\ notional_usdt = 1000000
    /\ contract_size = 100
    /\ Len(records) >= 2
    /\ records[2].roll
    /\ records[2].spot_price = 40000
    /\ records[2].spot_position = 25 * PnlDen
    /\ records[2].future_contracts = 10000

\* the for loop of _build_contract_segments is over
LoopOver == bpc # "segments"

\* C15: when the deliveries run out with the cursor not past the window end,
\* _build_contract_segments raises: the run stops there, before any day is
\* simulated and with nothing written; a list is only ever returned with
\* its last segment ending at end_date.
C15_CoverageErrorBeforeSimulation ==
    /\ (LoopOver /\ cursor <= end_date) =>
           /\ bpc = "raised_coverage"
           /\ day = None
           /\ records = <<>>
           /\ csv_rows = None
           /\ ~ENABLED SimNext
    /\ (bpc \in {"segments_done", "simulate", "raised_missing", "done"}) =>
           /\ Len(segments) >= 1
           /\ segments[Len(segments)].end = end_date

\* every roll date falls before the window: all deliveries were skipped
C15_Witness ==
    /\ bpc = "raised_coverage"
    /\ dIdx = Len(deliveries) + 1
    /\ Len(deliveries) >= 4
    /\ segments = <<>>
    /\ cursor = start_date

\* C16: when a day of the window has no spot close or no close of its active
\* contract, run() aborts on that day: the days before it were simulated,
\* the CSV writer is never invoked, nothing is returned and the run takes no
\* further step; rows are written only by a run that simulated every day.
C16_MissingPriceNoOutput ==
    /\ bpc = "raised_missing" =>
           /\ csv_rows = None
           /\ day <= end_date
           /\ Len(records) = day - start_date
           /\ ~ENABLED SimNext
    /\ csv_rows # None =>
           /\ bpc = "done"
           /\ Len(csv_rows[1]) = end_date - start_date + 1

\* a run aborted on its third day, after two days that built up PnL
C16_Witness ==
    /\ bpc = "raised_missing"
    /\ Len(records) = 2
    /\ cum_pnl # 0
    /\ csv_rows = None

\* C25: the position changes only on roll days: on every non-roll day the
\* record's spot_position and future_contracts equal those of the previous
\* day's record, and the future symbol is unchanged.
C25_PositionHeldBetweenRolls ==
    \A i \in 2..Len(records) :
        ~records[i].roll =>
            /\ records[i].spot_position = records[i - 1].spot_position
            /\ records[i].future_contracts = records[i - 1].future_contracts
            /\ records[i].future_symbol = records[i - 1].future_symbol

\* a non-roll day whose spot close moved, with a position on both legs
C25_Witness ==
    \E i \in 2..Len(records) :
        /\ ~records[i].roll
        /\ records[i].spot_price # records[i - 1].spot_price
        /\ records[i].spot_position > 0
        /\ records[i].future_contracts > 1

\* the delivery date named by a symbol PAIR_YYMMDD
DeliveryOf(symbol) ==
    Ordinal(2000 + symbol[2] \div 10000, (symbol[2] \div 100) % 100,
            symbol[2] % 100)

\* C26: with a roll buffer >= 0 no contract is held past its roll date: the
\* date of every record is on or before the delivery date of the record's
\* future symbol minus roll_buffer_days; and a delivery whose roll date falls
\* before the cursor contributes no segment.
C26_NeverHeldPastRollDate ==
    /\ [](roll_buffer_days >= 0 =>
            /\ \A i \in 1..Len(records) :
                  records[i].date
                      <= DeliveryOf(records[i].future_symbol) - roll_buffer_days
            /\ \A i \in 1..Len(segments) :
                  segments[i].end
                      <= DeliveryOf(segments[i].symbol) - roll_buffer_days)
    /\ [][(/\ bpc = "segments"
           /\ dIdx <= Len(deliveries)
           /\ deliveries[dIdx] - roll_buffer_days < cursor)
             => segments' = segments]_vars

\* a contract held up to its roll date, one day before its delivery, by a
\* scheduler that skipped the expired deliveries and then rolled
C26_Witness ==
    /\ roll_buffer_days = 1
    /\ dIdx > Len(segments) + 1
    /\ Len(records) >= 2
    /\ records[1].date = DeliveryOf(records[1].future_symbol) - 1
    /\ records[2].roll

(***************************************************************************)
(* Properties of the TWAP execution                                        *)
(***************************************************************************)
\* the remaining counters of the running flow
SpotLeft ==
    IF flow = "open" THEN spot_notional_remaining ELSE spot_qty_remaining
FutureLeft ==
    IF flow = "open" THEN future_notional_remaining ELSE future_remaining

\* the last step of the run was a tick that reached its slice placers
Sliced == last_tick # None /\ ~last_tick[1].skipped /\ tpc # "raised"

\* C2: in every TWAP run (open and close) each remaining counter is
\* non-increasing from one tick to the next and never negative.
C2_RemainingNonIncreasing ==
    /\ [](SpotLeft >= 0 /\ FutureLeft >= 0)
    /\ [][/\ SpotLeft' <= SpotLeft
          /\ FutureLeft' <= FutureLeft]_vars

\* an opening run whose second tick reduced both counters, with notional left
C2_Witness ==
    /\ flow = "open"
    /\ idx >= 2
    /\ Sliced
    /\ SpotLeft < last_tick[1].spot_before
    /\ FutureLeft < last_tick[1].future_before
    /\ SpotLeft > 0

\* C3 as stated: after every slice of an opening run, the executed notional
\* summed over the ticks so far exceeds the target notional by at most one
\* step-rounding unit (stepSize x that tick's price for spot, stepSize x
\* contractSize for the future).
C3_ExecutedWithinOneStep ==
    (flow = "open" /\ Sliced) =>
        /\ spot_executed <= config.notional_usdt
               + executor.spot_filter.stepSize * last_tick[1].spot_price
        /\ future_executed <= config.notional_usdt
               + executor.future_filter.stepSize * executor.contract_size

\* rounded <= num/den
AtMostPlanned(rounded, planned) ==
    rounded # None => rounded[1] * planned[2] <= planned[1]

\* C4 as stated: the size the slicer rounding returns for a positive planned
\* size and a positive step is at most the planned size of the tick.
C4_RoundedAtMostPlanned ==
    Sliced =>
        /\ AtMostPlanned(last_tick[1].spot_rounded, last_tick[1].spot_planned)
        /\ AtMostPlanned(last_tick[1].future_rounded, last_tick[1].future_planned)
        /\ last_tick[1].spot_size * last_tick[1].spot_planned[2]
               <= last_tick[1].spot_planned[1]
        /\ last_tick[1].future_size * last_tick[1].future_planned[2]
               <= last_tick[1].future_planned[1]

OrdersOf(account) ==
    {i \in 1..Len(tick_orders) : tick_orders[i].account = account}

\* C5: a leg whose rounded slice size is below its effective minimum (spot:
\* max(min_spot_qty, minQty); future: the contract step) is skipped: the size
\* returned is 0, no order of that leg is built or submitted on the tick, the
\* run goes on, and the leg's remaining counter is unchanged by the tick.
C5_BelowMinimumSkipped ==
    Sliced =>
        /\ (/\ last_tick[1].spot_rounded # None
            /\ last_tick[1].spot_rounded[1]
                   < Max(config.min_spot_qty, executor.spot_filter.minQty))
             => /\ last_tick[1].spot_size = 0
                /\ OrdersOf("SPOT") = {}
                /\ SpotLeft = last_tick[1].spot_before
                /\ tpc \in {"running", "done"}
        /\ (/\ last_tick[1].future_rounded # None
            /\ last_tick[1].future_rounded[1] < executor.future_filter.stepSize)
             => /\ last_tick[1].future_size = 0
                /\ OrdersOf("FUTURE") = {}
                /\ FutureLeft = last_tick[1].future_before
                /\ tpc \in {"running", "done"}

\* Scenario D: minQty = 0.001, stepSize = 0.001, planned slice = 0.0009
C5_Witness ==
    /\ Sliced
    /\ executor.spot_filter = [stepSize |-> 10, minQty |-> 10]
    /\ last_tick[1].spot_planned[1] = 9 * last_tick[1].spot_planned[2]
    /\ last_tick[1].spot_size = 0
    /\ SpotLeft = 9
    /\ OrdersOf("SPOT") = {}
    /\ OrdersOf("FUTURE") # {}

\* N = max(1, floor(durationMinutes / sliceIntervalMinutes))
ClaimedSlices ==
    Max(1, (config.duration_hours * 60) \div config.slice_interval_minutes)

\* C9: a TWAP run (open or close) whose collaborators do not raise performs
\* exactly N = max(1, floor(durationMinutes / sliceIntervalMinutes)) ticks and
\* is then done, with or without a residual; before that it can always take
\* its next tick; with 24 h and 5 min, N is 288.
C9_ExactlyNTicks ==
    /\ tpc = "done" => idx = ClaimedSlices
    /\ tpc = "running" => (idx < ClaimedSlices /\ ENABLED TwTick)
    /\ (/\ tpc = "done"
        /\ config.duration_hours = 24
        /\ config.slice_interval_minutes = 5) => idx = 288

\* the 24 h / 5 min opening run, done after 288 ticks with a residual
C9_Witness ==
    /\ tpc = "done"
    /\ flow = "open"
    /\ config.duration_hours = 24
    /\ config.slice_interval_minutes = 5
    /\ idx = 288
    /\ residual_warning
    /\ FutureLeft > 0

\* C11: in dry-run mode no order is handed to the order gateway: across
\* every tick of an opening or closing run, order_executor.place_order is
\* never called.
C11_DryRunNoGatewayCall ==
    config.dry_run => (place_calls = 0 /\ gateway = <<>>)

\* a finished dry run that built orders on both legs
C11_Witness ==
    /\ config.dry_run
    /\ tpc = "done"
    /\ idx >= 2
    /\ spot_executed > 0
    /\ future_executed > 0
    /\ Len(tick_orders) = 2

\* C12: in dry-run mode a TWAP run (open or close) never sleeps and never
\* schedules a next run time: its ticks run back-to-back.
C12_DryRunNeverSleeps ==
    config.dry_run => (sleeps = 0 /\ next_run = 0)

\* the 24 h / 5 min dry run, done after its 288 ticks
C12_Witness ==
    /\ config.dry_run
    /\ tpc = "done"
    /\ idx = 288
    /\ flow = "close"
    /\ sleeps = 0

\* the order is on the right side for the flow
RightSide(order) ==
    IF flow = "open"
    THEN \/ order.account = "SPOT" /\ order.side = "BUY"
         \/ order.account = "FUTURE" /\ order.side = "SELL"
    ELSE \/ order.account = "SPOT" /\ order.side = "SELL"
         \/ order.account = "FUTURE" /\ order.side = "BUY"

\* C17: every order built during open_position is a SPOT BUY or a FUTURE
\* SELL, and every order built during close_position is a SPOT SELL or a
\* FUTURE BUY, on every tick and for every order handed to the gateway.
C17_OrderSidesMatchFlow ==
    /\ \A i \in 1..Len(tick_orders) : RightSide(tick_orders[i])
    /\ \A i \in 1..Len(gateway) : RightSide(gateway[i].order)

\* a closing tick that built one order per leg after earlier live orders
C17_Witness ==
    /\ flow = "close"
    /\ OrdersOf("SPOT") # {}
    /\ OrdersOf("FUTURE") # {}
    /\ Len(gateway) >= 4

\* C18 as stated: in live mode tick k never starts before
\* startTime + k x sliceIntervalSeconds, whatever happened on the ticks
\* before it (orders placed or slice skipped).
C18_TickNotBeforeSchedule ==
    (~config.dry_run /\ last_tick # None) =>
        last_tick[1].started
            >= last_tick[1].tick * slice_interval_seconds(config)

\* C19 as stated: on any tick, opening or closing, whose spot reference
\* price is not positive, no order is placed on either leg and both
\* remaining counters are unchanged; the run goes on.
C19_NoPriceTickSkipped ==
    (last_tick # None /\ last_tick[1].spot_price <= 0 /\ tpc # "raised") =>
        /\ tick_orders = <<>>
        /\ SpotLeft = last_tick[1].spot_before
        /\ FutureLeft = last_tick[1].future_before
        /\ tpc \in {"running", "done"}

\* the gateway calls of tick t for the given account
CallsOf(t, account) ==
    {i \in 1..Len(gateway) :
        gateway[i].tick = t /\ gateway[i].order.account = account}

\* C20: when a book query or an order submission raises on a tick of a live
\* run, the run stops there: no further step is taken, the failed call is
\* made exactly once, every order is handed to the gateway at most once, no
\* order of a later tick is handed over, and after a failed spot submission
\* the future order of the same tick is not handed over.
C20_ErrorsPropagateNoRetry ==
    /\ \A t \in 0..idx : \A account \in {"SPOT", "FUTURE"} :
          Cardinality(CallsOf(t, account)) <= 1
    /\ \A i \in 1..Len(gateway) : gateway[i].tick <= idx
    /\ place_calls = Len(gateway)
    /\ (tpc = "raised") =>
          /\ ~ENABLED TwNext
          /\ error # None
          /\ error = Some("fetch") =>
                CallsOf(idx, "SPOT") \cup CallsOf(idx, "FUTURE") = {}
          /\ error = Some("SPOT") =>
                /\ CallsOf(idx, "SPOT") = {Len(gateway)}
                /\ CallsOf(idx, "FUTURE") = {}
          /\ error = Some("FUTURE") =>
                CallsOf(idx, "FUTURE") = {Len(gateway)}
    /\ (tpc # "raised") => error = None

\* a live opening run whose spot submission failed on a later tick, with
\* notional left on the future leg
C20_Witness ==
    /\ ~config.dry_run
    /\ flow = "open"
    /\ tpc = "raised"
    /\ error = Some("SPOT")
    /\ idx >= 1
    /\ Len(gateway) >= 3
    /\ FutureLeft >= One * executor.contract_size

\* C21 as stated: the remaining counters reflect only executed amounts: a
\* slice order that the gateway reports as not filled (status CANCELED)
\* does not reduce the remaining counter of its leg, so that the next tick
\* plans the unfilled amount again.
C21_UnfilledNotDeducted ==
    Sliced =>
        /\ last_tick[1].spot_status = Some("CANCELED")
              => SpotLeft = last_tick[1].spot_before
        /\ last_tick[1].future_status = Some("CANCELED")
              => FutureLeft = last_tick[1].future_before

\* 10 ^ -k in units, k = 0..4
PowerOfTen(step) == step \in {1, 10, 100, 1000, One}

\* C24 as stated: when a TWAP close run completes, a leg whose step size is
\* a power of ten is left with less than one tradable unit: spot quantity
\* remaining < max(stepSize, effective minQty), future contracts remaining
\* < the contract step, for any target and any N >= 1.
C24_CloseResidualBelowOneUnit ==
    (flow = "close" /\ tpc = "done") =>
        /\ PowerOfTen(executor.spot_filter.stepSize) =>
              spot_qty_remaining
                  < Max(executor.spot_filter.stepSize,
                        Max(config.min_spot_qty, executor.spot_filter.minQty))
        /\ PowerOfTen(executor.future_filter.stepSize) =>
              future_remaining < executor.future_filter.stepSize

(***************************************************************************)
(* Properties of the order builder and of the front contract selection     *)
(***************************************************************************)
\* C22 as stated: in limit-order mode the submitted price of a BUY never
\* exceeds ask x 1.001 and that of a SELL is never below bid x 0.999, after
\* rounding to the tick size; in market mode the order carries a quantity
\* and no price.
C22_LimitPriceWithinBand ==
    built_order # None =>
        LET order == built_order[1]
            bid == order_call.book[1]
            ask == order_call.book[2]
        IN  /\ (order.type = "LIMIT" /\ order.side = "BUY")
                  => order.price * 1000 <= ask * 1001
            /\ (order.type = "LIMIT" /\ order.side = "SELL")
                  => order.price * 1000 >= bid * 999
            /\ order.type = "MARKET"
                  => ("quantity" \in DOMAIN order /\ "price" \notin DOMAIN order)
            /\ order.type = "MARKET" <=> order_call.use_market_orders

\* the entries of the call that match the pair, are not perpetual, are
\* TRADING and deliver strictly after now
Qualifying ==
    {i \in 1..Len(front_call.info) :
        LET entry == front_call.info[i]
            status == IF entry.status_keys[1] = None THEN entry.status_keys[2]
                      ELSE entry.status_keys[1]
        IN  /\ entry.pair = "BTCUSD"
            /\ entry.contractType # "PERPETUAL"
            /\ status = <<"TRADING">>
            /\ entry.deliveryDate > front_call.now}

\* C23: _select_front_contract returns a symbol with the smallest
\* deliveryDate among the entries that match the pair, are not perpetual,
\* have status TRADING and deliver strictly after the current time, never
\* another entry, and raises exactly when no entry qualifies.
C23_FrontContractNearestLive ==
    front_result # None =>
        LET result == front_result[1]
        IN  /\ result.raised <=> Qualifying = {}
            /\ ~result.raised =>
                  /\ result.symbol \in Qualifying
                  /\ \A j \in Qualifying :
                        front_call.info[result.symbol].deliveryDate
                            <= front_call.info[j].deliveryDate

\* the nearer of two live contracts is listed second and is the one returned
C23_Witness ==
    /\ front_result # None
    /\ Qualifying = {1, 2}
    /\ front_call.info[1].deliveryDate > front_call.info[2].deliveryDate
    /\ front_result[1].symbol = 2

====
